---- MODULE Spec2Model ----
(***************************************************************************)
(* OAuth 2.0 authorization-code + PKCE client of the Vision desktop app    *)
(* (src-tauri/src/auth/mod.rs), with the deep-link delivery of callbacks   *)
(* (src-tauri/src/deeplink.rs).                                            *)
(*                                                                         *)
(* The state is AuthState (pending, processing, provider), the records of  *)
(* the tauri store "auth.json" (oauth_pending, oauth_provider, tokens) and *)
(* the keyring entry.  handle_callback_url and oauth_prepare_login run on  *)
(* different threads, so each is modelled as a process whose steps are the *)
(* accesses to that shared state, in the order of the code.                *)
(***************************************************************************)
EXTENDS Integers, Sequences, FiniteSets, TLC

VARIABLES
    pending,        \* AuthState.pending : Option<PendingAuth>
    processing,     \* AuthState.processing : bool
    provider,       \* AuthState.provider : Option<ProviderConfig>
    store_pending,  \* store record STORE_PENDING_KEY : Option<PendingAuthRecord>
    store_provider, \* store record STORE_PROVIDER_KEY : Option<ProviderConfig>
    store_tokens,   \* store record STORE_KEY : Option<TokenSet>
    vault,          \* keyring entry (TOKEN_SERVICE, TOKEN_ACCOUNT) : Option<TokenSet>
    now,            \* the clock, in seconds (now_epoch / Instant::now)
    cb,             \* the invocations of handle_callback_url
    prep,           \* the invocation of oauth_prepare_login
    nextId,         \* the next value random_urlsafe produces
    issued,         \* the state values oauth_prepare_login has returned
    exchanged,      \* history: per code_verifier, the token requests made with it
    drained,        \* history: consume_pending has returned a record, and
                    \* oauth_prepare_login has written nothing since
    lo,             \* the invocation of oauth_logout
    rf,             \* the invocation of oauth_refresh_if_needed
    st,             \* the last answer of oauth_get_auth_state
    notified,       \* the last "auth:changed" event (n flips at each emit)
    restarted,      \* history: the states issued before the process restart
    io              \* the last call of save_tokens or load_tokens made on its
                    \* own: its outcomes, argument and result

vars == <<pending, processing, provider, store_pending, store_provider,
          store_tokens, vault, now, cb, prep, nextId, issued, exchanged,
          drained, lo, rf, st, notified, restarted, io>>

\* What the operations of the session leave alone when they do not run.
sessVars == <<lo, rf, st, notified, restarted, io>>

----------------------------------------------------------------------------
(* Bounds of the model *)

MaxLogins == 1
NumCallers == 2
MaxTicks == 1
MaxSeconds == 1

(* Constants of the program *)

PENDING_TTL == 600
DEFAULT_EXPIRES_IN == 3600
REFRESH_WINDOW_SECS == 60

----------------------------------------------------------------------------
(* Option<T> *)

None == <<>>
Some(x) == <<x>>
IsSome(o) == o # <<>>
IsNone(o) == o = <<>>
Unwrap(o) == o[1]

----------------------------------------------------------------------------
(* Inputs *)

Callers == 1..NumCallers
\* The values random_urlsafe produces: those of the MaxLogins attempts, and
\* the one of the attempt that replaces the last of them.
MaxAttempts == MaxLogins + 1
Ids == 1..MaxAttempts
\* The state values a redirect can carry: the generated ones, and 0 for a
\* value that was never generated.
StateValues == 0..MaxAttempts
Providers == {"pA"}
\* The provider a login that replaces another one is prepared with.
OtherProviders == {"pB"}
AccessTokens == {"at1"}
RefreshTokens == {"rt1"}
ExpiresIn == {120}

\* The query of a redirect URL, as extract_query sees it.
Urls == [error : BOOLEAN, code : BOOLEAN,
         state : {None} \cup {Some(s) : s \in StateValues}]

NoUrl == [error |-> FALSE, code |-> FALSE, state |-> None]

\* The JSON body of a 2xx answer of the token endpoint.
TokenResponses ==
    {[access_token |-> a, refresh_token |-> None, expires_in |-> None] :
        a \in AccessTokens}
    \cup {[access_token |-> a, refresh_token |-> Some(r), expires_in |-> Some(e)] :
            a \in AccessTokens, r \in RefreshTokens, e \in ExpiresIn}

\* The answers to a refresh_token grant: those above, and a short-lived
\* access token without a new refresh token.
ShortExpiresIn == {30}
RefreshResponses ==
    TokenResponses
    \cup {[access_token |-> a, refresh_token |-> None, expires_in |-> Some(e)] :
            a \in AccessTokens, e \in ShortExpiresIn}

\* The clock advances by the time-to-live or by one second more.
TickSteps == {PENDING_TTL, PENDING_TTL + 1}
TimeValues == {p[1] * PENDING_TTL + p[2] * (PENDING_TTL + 1) :
                p \in {q \in (0..MaxTicks) \X (0..MaxTicks) : q[1] + q[2] <= MaxTicks}}

----------------------------------------------------------------------------
(* The tauri store: app.store(STORE_PATH) can fail before the record is    *)
(* touched, store.save() can fail after set/delete changed it.             *)

StoreOutcomes == {"ok", "err_open", "err_save"}
ReadOutcomes == {"ok", "err_open"}

StoreOk(o) == o = "ok"
\* The record after `store.set(KEY, new); store.save()` with outcome o.
StoreWrite(old, new, o) == IF o = "err_open" THEN old ELSE Some(new)
\* Variant: the delete leaves the record in place.
StoreDeleteKept(old, o) == old

\* The record after `store.delete(KEY); store.save()` with outcome o.
StoreDelete(old, o) == IF o = "err_open" THEN old ELSE None

----------------------------------------------------------------------------
(* Pure functions of auth/mod.rs *)

\* A redirect carries no state, a state oauth_prepare_login has returned (the
\* authorization URL holds it), or a value that was never generated: the 32
\* random bytes of a state are not known before they are returned.
Deliverable(u) ==
    IF IsNone(u.state) THEN TRUE
    ELSE Unwrap(u.state) = 0 \/ Unwrap(u.state) \in issued

\* Variant: a guard that never refuses.
GuardFreeAlways(flag) == TRUE

\* ProcessingGuard::lock: `if *guard { return Err(..) }`.
GuardFree(flag) == ~flag

\* Variant: the flag is reset on the success path only.
GuardDropOnSuccess(res, flag) == IF res = "Ok" THEN FALSE ELSE flag

\* ProcessingGuard::drop: the flag after the guard of an invocation that
\* returns `res` went out of scope.
GuardDrop(res, flag) == FALSE

\* Variant: the error branch does not look at the state parameter.
ClassifyDenied(u) ==
    IF u.error THEN "AuthorizationDenied"
    ELSE IF ~u.code THEN "MissingCode"
    ELSE IF IsNone(u.state) THEN "MissingState"
    ELSE "consume"

\* Variant: the state parameter is looked at before the code parameter.
ClassifyStateFirst(u) ==
    IF u.error
    THEN IF IsNone(u.state) THEN "MissingState" ELSE "AuthorizationDenied"
    ELSE IF IsNone(u.state) THEN "MissingState"
    ELSE IF ~u.code THEN "MissingCode"
    ELSE "consume"

\* The branch of handle_callback_url a redirect takes before the pending
\* record is consumed: the error it returns after clear_pending, or "consume".
Classify(u) ==
    IF u.error
    THEN IF IsNone(u.state) THEN "MissingState" ELSE "AuthorizationDenied"
    ELSE IF ~u.code THEN "MissingCode"
    ELSE IF IsNone(u.state) THEN "MissingState"
    ELSE "consume"

\* Variant: the record is cloned and stays in the slot.
TakePendingClone(p) == p

\* consume_pending: the slot after `state.pending.lock()?.take()`.
TakePending(p) == None

\* Variant: the durable copy is not looked at.
LoadPendingStoreNothing(stored) == None

\* load_pending_store: the record `store.get(STORE_PENDING_KEY)` yields.
LoadPendingStore(stored) == stored

\* Variant: a pending record that exists is kept.
ReplacePendingKeep(old, new) == IF IsSome(old) THEN old ELSE Some(new)

\* oauth_prepare_login: `*pending = Some(PendingAuth { .. })`
ReplacePending(old, new) == Some(new)

\* consume_pending: PendingAuth -> PendingAuthRecord at time t.
ToRecord(p, t) ==
    LET elapsed == t - p.created_at
    IN  [state |-> p.state, code_verifier |-> p.code_verifier,
         provider |-> p.provider,
         created_at_epoch |-> IF t - elapsed < 0 THEN 0 ELSE t - elapsed]

\* Variant: a record is expired from the age PENDING_TTL on.
ExpiredAtTtl(rec, t) == t - rec.created_at_epoch >= PENDING_TTL

\* Variant: a record never expires.
ExpiredNever(rec, t) == FALSE

\* `now_epoch() - pending.created_at_epoch > PENDING_TTL`
Expired(rec, t) == t - rec.created_at_epoch > PENDING_TTL

\* Variant: the state of the redirect is not compared.
MismatchNever(rec, u) == FALSE

\* `pending.state != returned_state`
Mismatch(rec, u) == rec.state # Unwrap(u.state)

\* exchange_code_for_token: the TokenSet of a 2xx answer received at time t.
TokenSetOf(resp, t) ==
    [access_token |-> resp.access_token,
     refresh_token |-> resp.refresh_token,
     expires_at |-> t + (IF IsSome(resp.expires_in)
                         THEN Unwrap(resp.expires_in) ELSE DEFAULT_EXPIRES_IN)]

\* Variant: the refresh token of the answer is taken as it is.
RefreshedTokenSetDropping(resp, t, rt) ==
    [access_token |-> resp.access_token,
     refresh_token |-> resp.refresh_token,
     expires_at |-> t + (IF IsSome(resp.expires_in)
                         THEN Unwrap(resp.expires_in) ELSE DEFAULT_EXPIRES_IN)]

\* refresh_tokens: the TokenSet of a 2xx answer received at time t to a
\* request made with the refresh token rt.
RefreshedTokenSet(resp, t, rt) ==
    [access_token |-> resp.access_token,
     refresh_token |-> IF IsSome(resp.refresh_token) THEN resp.refresh_token
                       ELSE Some(rt),
     expires_at |-> t + (IF IsSome(resp.expires_in)
                         THEN Unwrap(resp.expires_in) ELSE DEFAULT_EXPIRES_IN)]

\* AuthStatus
AuthStatus(auth, exp) == [is_authenticated |-> auth, expires_at |-> exp]
Unauthenticated == AuthStatus(FALSE, None)

\* `app.emit("auth:changed", status)`
Emit(ev, status) == [n |-> 1 - ev.n, status |-> Some(status)]

----------------------------------------------------------------------------
(* State *)

IdleCb == [pc |-> "idle", url |-> NoUrl, pend |-> None, tok |-> None,
           result |-> ""]
\* `raced` is history: an invocation of handle_callback_url was in
\* Processing and made a step while oauth_prepare_login was running.
IdlePrep == [pc |-> "idle", id |-> 0, provider |-> "pA", raced |-> FALSE]
Raced(pr) == IF pr.pc = "idle" THEN pr ELSE [pr EXCEPT !.raced = TRUE]

IdleLo == [pc |-> "idle", result |-> "", before |-> {}, dirty |-> FALSE]
IdleRf == [pc |-> "idle", tokens |-> None, resp |-> None, new |-> None,
           calls |-> 0, result |-> "", status |-> None]
NoStatus == [result |-> "", loaded |-> None, status |-> None]
NoEvent == [n |-> 0, status |-> None]
NoCall == [op |-> "", vo |-> "", so |-> "", arg |-> None, result |-> "",
           value |-> None, last |-> None]

\* An invocation is in Processing from the acquisition of the guard to its exit.
ProcessingPcs == {"clear_store", "consume_load", "consume_clear", "exchange",
                  "save", "persist"}

Init ==
    /\ pending = None
    /\ processing = FALSE
    /\ provider = None
    /\ store_pending = None
    /\ store_provider = None
    /\ store_tokens = None
    /\ vault = None
    /\ now = 0
    /\ cb = [i \in Callers |-> IdleCb]
    /\ prep = IdlePrep
    /\ nextId = 1
    /\ issued = {}
    /\ exchanged = [v \in Ids |-> 0]
    /\ drained = FALSE
    /\ lo = IdleLo
    /\ rf = IdleRf
    /\ st = NoStatus
    /\ notified = NoEvent
    /\ restarted = None
    /\ io = NoCall

----------------------------------------------------------------------------
(* handle_callback_url, invocation i.  An invocation is a sequence of      *)
(* accesses to the shared state; what it computes on its own values        *)
(* between two accesses belongs to the step of the access before.          *)

\* The invocation returns `res`; its guard goes out of scope.  The slot keeps
\* the result until it delivers the next URL.
Exit(i, res) ==
    /\ cb' = [cb EXCEPT ![i] = [IdleCb EXCEPT !.result = res]]
    /\ processing' = GuardDrop(res, processing)

\* The tasks that deliver URLs are interchangeable: a delivery takes the
\* first free one.
FirstFree(i) ==
    /\ cb[i].pc = "idle"
    /\ \A j \in Callers : j < i => cb[j].pc # "idle"

\* Variant: the refused invocation resets the flag on its way out.
CbRejectDropping(i) ==
    /\ FirstFree(i)
    /\ ~GuardFree(processing)
    /\ cb' = [cb EXCEPT ![i] = [IdleCb EXCEPT !.result = "AlreadyProcessing"]]
    /\ processing' = FALSE
    /\ UNCHANGED <<pending, provider, store_pending, store_provider,
                   store_tokens, vault, now, prep, nextId, exchanged, issued,
                   drained>>
    /\ UNCHANGED sessVars

\* `if *guard { return Err(AuthError::Storage("callback already processing")) }`:
\* the invocation is refused whatever its URL, and holds no guard to drop.
CbReject(i) ==
    /\ FirstFree(i)
    /\ ~GuardFree(processing)
    /\ cb' = [cb EXCEPT ![i] = [IdleCb EXCEPT !.result = "AlreadyProcessing"]]
    /\ UNCHANGED <<pending, processing, provider, store_pending,
                   store_provider, store_tokens, vault, now, prep, nextId,
                   exchanged, issued, drained>>
    /\ UNCHANGED sessVars

\* `let guard = ProcessingGuard::lock(&state.processing)?;`, then on an error,
\* a missing code or a missing state the first half of clear_pending
\* (`*guard = None` under the pending lock); `result` holds the error the
\* branch returns once clear_pending_store succeeded.
CbClearPending(i, u) ==
    /\ FirstFree(i)
    /\ Deliverable(u)
    /\ GuardFree(processing)
    /\ Classify(u) # "consume"
    /\ processing' = TRUE
    /\ pending' = None
    /\ cb' = [cb EXCEPT ![i] = [IdleCb EXCEPT !.pc = "clear_store", !.url = u,
                                              !.result = Classify(u)]]
    /\ prep' = Raced(prep)
    /\ UNCHANGED <<provider, store_pending, store_provider, store_tokens,
                   vault, now, nextId, exchanged, issued, drained>>
    /\ UNCHANGED sessVars

\* clear_pending, second half: clear_pending_store(app)?, then the error
\* the branch returns.
CbClearStore(i, o) ==
    /\ cb[i].pc = "clear_store"
    /\ store_pending' = StoreDelete(store_pending, o)
    /\ Exit(i, IF StoreOk(o) THEN cb[i].result ELSE "Storage")
    /\ prep' = Raced(prep)
    /\ UNCHANGED <<pending, provider, store_provider, store_tokens, vault,
                   now, nextId, exchanged, issued, drained>>
    /\ UNCHANGED sessVars

\* `ProcessingGuard::lock(..)?`, then with code and state present
\* consume_pending: `state.pending.lock()?.take()`.
CbTake(i, u) ==
    /\ FirstFree(i)
    /\ Deliverable(u)
    /\ GuardFree(processing)
    /\ Classify(u) = "consume"
    /\ processing' = TRUE
    /\ pending' = TakePending(pending)
    /\ IF IsSome(pending)
       THEN cb' = [cb EXCEPT ![i] =
                     [IdleCb EXCEPT !.pc = "consume_clear", !.url = u,
                                    !.pend = Some(ToRecord(Unwrap(pending), now))]]
       ELSE cb' = [cb EXCEPT ![i] =
                     [IdleCb EXCEPT !.pc = "consume_load", !.url = u]]
    /\ prep' = Raced(prep)
    /\ UNCHANGED <<provider, store_pending, store_provider, store_tokens,
                   vault, now, nextId, exchanged, issued, drained>>
    /\ UNCHANGED sessVars

\* consume_pending: `load_pending_store(app)?.ok_or(NoPendingState)?`
CbLoad(i, o) ==
    /\ cb[i].pc = "consume_load"
    /\ IF ~StoreOk(o) THEN Exit(i, "Storage")
       ELSE IF IsNone(LoadPendingStore(store_pending))
       THEN Exit(i, "NoPendingState")
       ELSE /\ cb' = [cb EXCEPT ![i].pc = "consume_clear",
                                ![i].pend = LoadPendingStore(store_pending)]
            /\ processing' = processing
    /\ prep' = Raced(prep)
    /\ UNCHANGED <<pending, provider, store_pending, store_provider,
                   store_tokens, vault, now, nextId, exchanged, issued, drained>>
    /\ UNCHANGED sessVars

\* consume_pending: `clear_pending_store(app)?`; then the expiry test and the
\* state comparison, and on a mismatch the first half of clear_pending.
CbConsumeClear(i, o) ==
    /\ cb[i].pc = "consume_clear"
    /\ store_pending' = StoreDelete(store_pending, o)
    /\ LET rec == Unwrap(cb[i].pend) IN
       IF ~StoreOk(o) THEN Exit(i, "Storage") /\ pending' = pending
       ELSE IF Expired(rec, now)
       THEN Exit(i, "PendingExpired") /\ pending' = pending
       ELSE IF Mismatch(rec, cb[i].url)
       THEN /\ pending' = None
            /\ cb' = [cb EXCEPT ![i].pc = "clear_store",
                                ![i].result = "StateMismatch"]
            /\ processing' = processing
       ELSE /\ cb' = [cb EXCEPT ![i].pc = "exchange"]
            /\ UNCHANGED <<pending, processing>>
    /\ drained' = IF StoreOk(o) THEN IsNone(pending) ELSE drained
    /\ prep' = Raced(prep)
    /\ UNCHANGED <<provider, store_provider, store_tokens, vault, now,
                   nextId, exchanged, issued>>
    /\ UNCHANGED sessVars

\* The token endpoint answers the request of exchange_code_for_token.
ExchangeOutcomes == {"ok", "status", "request"}

\* Variant: a failed token request ends in clear_pending.
CbExchangeClearing(i, xo, resp) ==
    /\ cb[i].pc = "exchange"
    /\ LET v == Unwrap(cb[i].pend).code_verifier IN
       exchanged' = [exchanged EXCEPT ![v] = @ + 1]
    /\ IF xo = "ok"
       THEN /\ cb' = [cb EXCEPT ![i].pc = "save",
                                ![i].tok = Some(TokenSetOf(resp, now))]
            /\ processing' = processing
            /\ pending' = pending
       ELSE /\ Exit(i, IF xo = "status" THEN "TokenExchangeFailed"
                                        ELSE "Request")
            /\ pending' = None
    /\ prep' = Raced(prep)
    /\ UNCHANGED <<provider, store_pending, store_provider,
                   store_tokens, vault, now, nextId, issued, drained>>
    /\ UNCHANGED sessVars

\* `exchange_code_for_token(&pending.provider, &code, &pending.code_verifier).await?`
CbExchange(i, xo, resp) ==
    /\ cb[i].pc = "exchange"
    /\ LET v == Unwrap(cb[i].pend).code_verifier IN
       exchanged' = [exchanged EXCEPT ![v] = @ + 1]
    /\ IF xo = "ok"
       THEN /\ cb' = [cb EXCEPT ![i].pc = "save",
                                ![i].tok = Some(TokenSetOf(resp, now))]
            /\ processing' = processing
       ELSE Exit(i, IF xo = "status" THEN "TokenExchangeFailed" ELSE "Request")
    /\ prep' = Raced(prep)
    /\ UNCHANGED <<pending, provider, store_pending, store_provider,
                   store_tokens, vault, now, nextId, issued, drained>>
    /\ UNCHANGED sessVars

\* save_tokens: the keyring first, the store when set_password fails.
VaultOutcomes == {"set_ok", "set_err", "entry_err"}
SaveTokensVault(v, tok, vo) == IF vo = "set_ok" THEN Some(tok) ELSE v
SaveTokensStore(s, tok, vo, so) ==
    IF vo = "set_err" THEN StoreWrite(s, tok, so) ELSE s
SaveTokensOk(vo, so) == vo = "set_ok" \/ (vo = "set_err" /\ StoreOk(so))
\* The store is reached (and can fail) only after set_password failed.
SaveTokensCase(vo, so) == vo = "set_err" \/ so = "ok"

\* `save_tokens(app, &token_set)?`
CbSaveTokens(i, vo, so) ==
    /\ cb[i].pc = "save"
    /\ SaveTokensCase(vo, so)
    /\ vault' = SaveTokensVault(vault, Unwrap(cb[i].tok), vo)
    /\ store_tokens' = SaveTokensStore(store_tokens, Unwrap(cb[i].tok), vo, so)
    /\ IF SaveTokensOk(vo, so)
       THEN cb' = [cb EXCEPT ![i].pc = "persist"] /\ processing' = processing
       ELSE Exit(i, "Storage")
    /\ prep' = Raced(prep)
    /\ UNCHANGED <<pending, provider, store_pending, store_provider, now, nextId, exchanged, issued, drained>>
    /\ lo' = [lo EXCEPT !.dirty = TRUE]
    /\ UNCHANGED <<rf, st, notified, restarted, io>>

\* `persist_provider(app, &pending.provider)?; emit_auth_changed(..);
\*  drop(guard); Ok(())`
CbPersistProvider(i, o) ==
    /\ cb[i].pc = "persist"
    /\ store_provider' =
         StoreWrite(store_provider, Unwrap(cb[i].pend).provider, o)
    /\ Exit(i, IF StoreOk(o) THEN "Ok" ELSE "Storage")
    /\ prep' = Raced(prep)
    /\ UNCHANGED <<pending, provider, store_pending, store_tokens, vault, now, nextId, exchanged, issued, drained>>
    /\ notified' = IF StoreOk(o)
                   THEN Emit(notified, AuthStatus(TRUE,
                                 Some(Unwrap(cb[i].tok).expires_at)))
                   ELSE notified
    /\ lo' = [lo EXCEPT !.dirty = TRUE]
    /\ UNCHANGED <<rf, st, restarted, io>>

----------------------------------------------------------------------------
(* oauth_prepare_login *)

\* random_urlsafe(32), random_urlsafe(64), `*pending = Some(PendingAuth{..})`,
\* `*provider_state = Some(provider.clone())`
PrepWrite(p) ==
    /\ prep.pc = "idle"
    /\ pending' = ReplacePending(pending,
                                 [state |-> nextId, code_verifier |-> nextId,
                                  provider |-> p, created_at |-> now])
    /\ provider' = Some(p)
    /\ prep' = [pc |-> "persist_provider", id |-> nextId, provider |-> p,
                raced |-> FALSE]
    /\ nextId' = nextId + 1
    /\ drained' = FALSE
    /\ UNCHANGED <<processing, store_pending, store_provider, store_tokens,
                   vault, now, cb, exchanged, issued>>
    /\ UNCHANGED sessVars

\* `persist_provider(&app, &provider)?`
PrepPersistProvider(o) ==
    /\ prep.pc = "persist_provider"
    /\ store_provider' = StoreWrite(store_provider, prep.provider, o)
    /\ prep' = IF StoreOk(o) THEN [prep EXCEPT !.pc = "persist_pending"]
               ELSE IdlePrep
    /\ drained' = FALSE
    /\ UNCHANGED <<pending, processing, provider, store_pending, store_tokens,
                   vault, now, cb, nextId, exchanged, issued>>
    /\ UNCHANGED sessVars

\* `persist_pending(&app, &PendingAuthRecord{.., created_at_epoch: now_epoch()})?`,
\* then `build_authorization_url(..)?` (built: the authorization endpoint of
\* the provider parses as a URL) and the return of the URL with its state.
PrepPersistPending(o, built) ==
    /\ prep.pc = "persist_pending"
    /\ store_pending' =
         StoreWrite(store_pending,
                    [state |-> prep.id, code_verifier |-> prep.id,
                     provider |-> prep.provider, created_at_epoch |-> now], o)
    /\ prep' = IdlePrep
    /\ issued' = IF StoreOk(o) /\ built THEN issued \cup {prep.id} ELSE issued
    /\ drained' = FALSE
    /\ UNCHANGED <<pending, processing, provider, store_provider, store_tokens,
                   vault, now, cb, nextId, exchanged>>
    /\ UNCHANGED sessVars

\* One of the MaxLogins login attempts.
PrepStart(p) == nextId <= MaxLogins /\ PrepWrite(p)

\* The call of oauth_prepare_login that replaces the last attempt.
PrepAgain(p) == nextId = MaxAttempts /\ PrepWrite(p)

----------------------------------------------------------------------------
(* oauth_logout *)

\* clear_tokens: `let _ = entry.delete_password()`, when the entry could be
\* made; an error is ignored.
DeleteOutcomes == {"del_ok", "del_err"}
VaultDelete(v, vo) == IF vo = "del_ok" THEN None ELSE v

\* clear_tokens, the keyring part.  `before` and `dirty` are history: the
\* states issued when the logout began, and whether a TokenSet or a provider
\* was saved since.
LoStart(vo) ==
    /\ lo.pc = "idle"
    /\ vault' = VaultDelete(vault, vo)
    /\ lo' = [pc |-> "provider", result |-> "", before |-> issued,
              dirty |-> FALSE]
    /\ UNCHANGED <<pending, processing, provider, store_pending,
                   store_provider, store_tokens, now, cb, prep, nextId,
                   issued, exchanged, drained, rf, st, notified, restarted, io>>

\* `clear_provider_store(app)?`
LoProvider(o) ==
    /\ lo.pc = "provider"
    /\ store_provider' = StoreDelete(store_provider, o)
    /\ lo' = IF StoreOk(o) THEN [lo EXCEPT !.pc = "pending"]
             ELSE [lo EXCEPT !.pc = "idle", !.result = "Storage"]
    /\ UNCHANGED <<pending, processing, provider, store_pending, store_tokens,
                   vault, now, cb, prep, nextId, issued, exchanged, drained,
                   rf, st, notified, restarted, io>>

\* `clear_pending_store(app)?`
LoPending(o) ==
    /\ lo.pc = "pending"
    /\ store_pending' = StoreDelete(store_pending, o)
    /\ lo' = IF StoreOk(o) THEN [lo EXCEPT !.pc = "tokens"]
             ELSE [lo EXCEPT !.pc = "idle", !.result = "Storage"]
    /\ UNCHANGED <<pending, processing, provider, store_provider, store_tokens,
                   vault, now, cb, prep, nextId, issued, exchanged, drained,
                   rf, st, notified, restarted, io>>

\* Variant: the event is emitted whether clear_tokens_store failed or not.
LoTokensEmitting(o) ==
    /\ lo.pc = "tokens"
    /\ store_tokens' = StoreDelete(store_tokens, o)
    /\ lo' = [lo EXCEPT !.pc = "idle",
                        !.result = IF StoreOk(o) THEN "Ok" ELSE "Storage"]
    /\ notified' = Emit(notified, Unauthenticated)
    /\ UNCHANGED <<pending, processing, provider, store_pending,
                   store_provider, vault, now, cb, prep, nextId, issued,
                   exchanged, drained, rf, st, restarted, io>>

\* `clear_tokens_store(app)`, then `app.emit("auth:changed", status)` and Ok.
LoTokens(o) ==
    /\ lo.pc = "tokens"
    /\ store_tokens' = StoreDelete(store_tokens, o)
    /\ lo' = [lo EXCEPT !.pc = "idle",
                        !.result = IF StoreOk(o) THEN "Ok" ELSE "Storage"]
    /\ notified' = IF StoreOk(o) THEN Emit(notified, Unauthenticated)
                   ELSE notified
    /\ UNCHANGED <<pending, processing, provider, store_pending,
                   store_provider, vault, now, cb, prep, nextId, issued,
                   exchanged, drained, rf, st, restarted, io>>

----------------------------------------------------------------------------
(* load_tokens *)

\* keyring::Entry::new fails, get_password succeeds, or get_password fails
\* (there is no entry, or the keyring cannot be read).
LoadOutcomes == {"get_ok", "get_err", "entry_err"}
\* get_password succeeds only on an entry that exists; the store is read
\* only after get_password failed.
LoadTokensCase(v, vo, so) ==
    /\ vo = "get_ok" => IsSome(v)
    /\ vo # "get_err" => so = "ok"
LoadTokensErr(vo, so) == vo = "entry_err" \/ (vo = "get_err" /\ ~StoreOk(so))
\* `Ok(json) => Ok(Some(tokens))`, `Err(_) => load_tokens_store(app)`
LoadTokens(v, s, vo) == IF vo = "get_ok" THEN v ELSE s

\* load_tokens called on its own, with the outcomes vo of the keyring and
\* so of the store.
StoreLoad(vo, so) ==
    /\ LoadTokensCase(vault, vo, so)
    /\ io' = [op |-> "load", vo |-> vo, so |-> so, arg |-> None,
              result |-> IF LoadTokensErr(vo, so) THEN "Storage" ELSE "Ok",
              value |-> IF LoadTokensErr(vo, so) THEN None
                        ELSE LoadTokens(vault, store_tokens, vo),
              last |-> io.last]
    /\ UNCHANGED <<pending, processing, provider, store_pending,
                   store_provider, store_tokens, vault, now, cb, prep, nextId,
                   issued, exchanged, drained, lo, rf, st, notified,
                   restarted>>

\* The TokenSets of successive logins.
SavedTokens ==
    {[access_token |-> a, refresh_token |-> None,
      expires_at |-> DEFAULT_EXPIRES_IN] : a \in {"at1", "at2"}}

\* save_tokens called on its own; `last` is the TokenSet of the latest call
\* that returned Ok.
StoreSave(tok, vo, so) ==
    /\ SaveTokensCase(vo, so)
    /\ vault' = SaveTokensVault(vault, tok, vo)
    /\ store_tokens' = SaveTokensStore(store_tokens, tok, vo, so)
    /\ io' = [op |-> "save", vo |-> vo, so |-> so, arg |-> Some(tok),
              result |-> IF SaveTokensOk(vo, so) THEN "Ok" ELSE "Storage",
              value |-> None,
              last |-> IF SaveTokensOk(vo, so) THEN Some(tok) ELSE io.last]
    /\ UNCHANGED <<pending, processing, provider, store_pending,
                   store_provider, now, cb, prep, nextId, issued, exchanged,
                   drained, lo, rf, st, notified, restarted>>

----------------------------------------------------------------------------
(* oauth_get_auth_state *)

\* Variant: a TokenSet that expires now still counts.
StatusOfGrace(loaded, t) ==
    IF IsNone(loaded) THEN Unauthenticated
    ELSE AuthStatus(Unwrap(loaded).expires_at >= t,
                    Some(Unwrap(loaded).expires_at))

\* `is_authenticated = tokens.expires_at > now`
StatusOf(loaded, t) ==
    IF IsNone(loaded) THEN Unauthenticated
    ELSE AuthStatus(Unwrap(loaded).expires_at > t,
                    Some(Unwrap(loaded).expires_at))

\* The command is synchronous: load_tokens, now_epoch and the answer.
GetStatus(vo, so) ==
    /\ LoadTokensCase(vault, vo, so)
    /\ st' = IF LoadTokensErr(vo, so)
             THEN [result |-> "Storage", loaded |-> None, status |-> None]
             ELSE [result |-> "Ok", loaded |-> LoadTokens(vault, store_tokens, vo),
                   status |-> Some(StatusOf(LoadTokens(vault, store_tokens, vo),
                                            now))]
    /\ UNCHANGED <<pending, processing, provider, store_pending,
                   store_provider, store_tokens, vault, now, cb, prep, nextId,
                   issued, exchanged, drained, lo, rf, notified, restarted, io>>

----------------------------------------------------------------------------
(* oauth_refresh_if_needed *)

\* Variant: a TokenSet is refreshed as soon as it has a refresh token.
RefreshDecisionEager(loaded, t) ==
    IF IsNone(loaded) THEN "unauthenticated"
    ELSE IF IsNone(Unwrap(loaded).refresh_token)
    THEN IF Unwrap(loaded).expires_at - t > REFRESH_WINDOW_SECS THEN "fresh"
         ELSE "RefreshTokenMissing"
    ELSE "refresh"

\* Variant: the window ends a second early.
RefreshDecisionGrace(loaded, t) ==
    IF IsNone(loaded) THEN "unauthenticated"
    ELSE IF Unwrap(loaded).expires_at - t >= REFRESH_WINDOW_SECS THEN "fresh"
    ELSE IF IsNone(Unwrap(loaded).refresh_token) THEN "RefreshTokenMissing"
    ELSE "refresh"

\* Variant: the refresh token is looked for before the window is tested.
RefreshDecisionTokenFirst(loaded, t) ==
    IF IsNone(loaded) THEN "unauthenticated"
    ELSE IF IsNone(Unwrap(loaded).refresh_token) THEN "RefreshTokenMissing"
    ELSE IF Unwrap(loaded).expires_at - t > REFRESH_WINDOW_SECS THEN "fresh"
    ELSE "refresh"

\* What the command does with the TokenSet load_tokens returned, at time t.
RefreshDecision(loaded, t) ==
    IF IsNone(loaded) THEN "unauthenticated"
    ELSE IF Unwrap(loaded).expires_at - t > REFRESH_WINDOW_SECS THEN "fresh"
    ELSE IF IsNone(Unwrap(loaded).refresh_token) THEN "RefreshTokenMissing"
    ELSE "refresh"

RfReturn(res, status) ==
    [IdleRf EXCEPT !.result = res, !.status = status, !.calls = rf.calls]

\* `state.provider.lock()?.clone()`
RfStart ==
    /\ rf.pc = "idle"
    /\ rf' = [IdleRf EXCEPT !.pc = IF IsSome(provider) THEN "load_tokens"
                                   ELSE "load_provider"]
    /\ UNCHANGED <<pending, processing, provider, store_pending,
                   store_provider, store_tokens, vault, now, cb, prep, nextId,
                   issued, exchanged, drained, lo, st, notified, restarted, io>>

\* `load_provider(&app)?.ok_or(ProviderConfigMissing)?`, then
\* `*provider_state = Some(stored.clone())`
RfLoadProvider(o) ==
    /\ rf.pc = "load_provider"
    /\ IF ~StoreOk(o)
       THEN rf' = RfReturn("Storage", None) /\ provider' = provider
       ELSE IF IsNone(store_provider)
       THEN rf' = RfReturn("ProviderConfigMissing", None)
            /\ provider' = provider
       ELSE rf' = [rf EXCEPT !.pc = "load_tokens"]
            /\ provider' = store_provider
    /\ UNCHANGED <<pending, processing, store_pending, store_provider,
                   store_tokens, vault, now, cb, prep, nextId, issued,
                   exchanged, drained, lo, st, notified, restarted, io>>

\* `load_tokens(&app)?`, `now_epoch()`, the window test and the refresh token.
RfLoadTokens(vo, so) ==
    /\ rf.pc = "load_tokens"
    /\ LoadTokensCase(vault, vo, so)
    /\ LET loaded == LoadTokens(vault, store_tokens, vo)
           d == RefreshDecision(loaded, now) IN
       rf' = IF LoadTokensErr(vo, so) THEN RfReturn("Storage", None)
             ELSE IF d = "unauthenticated"
             THEN RfReturn("Ok", Some(Unauthenticated))
             ELSE IF d = "fresh"
             THEN [RfReturn("Ok", Some(AuthStatus(TRUE,
                                          Some(Unwrap(loaded).expires_at))))
                     EXCEPT !.tokens = loaded]
             ELSE IF d = "RefreshTokenMissing"
             THEN [RfReturn("RefreshTokenMissing", None)
                     EXCEPT !.tokens = loaded]
             ELSE [rf EXCEPT !.pc = "refresh", !.tokens = loaded]
    /\ UNCHANGED <<pending, processing, provider, store_pending,
                   store_provider, store_tokens, vault, now, cb, prep, nextId,
                   issued, exchanged, drained, lo, st, notified, restarted, io>>

\* `refresh_tokens(&provider, &refresh_token).await?`: the token endpoint
\* answers the refresh_token grant.
RfRefresh(xo, resp) ==
    /\ rf.pc = "refresh"
    /\ rf' = IF xo = "ok"
             THEN [rf EXCEPT !.pc = "save", !.resp = Some(resp),
                             !.calls = @ + 1,
                             !.new = Some(RefreshedTokenSet(resp, now,
                                      Unwrap(Unwrap(rf.tokens).refresh_token)))]
             ELSE [RfReturn(IF xo = "status" THEN "TokenExchangeFailed"
                            ELSE "Request", None) EXCEPT !.calls = rf.calls + 1]
    /\ UNCHANGED <<pending, processing, provider, store_pending,
                   store_provider, store_tokens, vault, now, cb, prep, nextId,
                   issued, exchanged, drained, lo, st, notified, restarted, io>>

\* `save_tokens(&app, &refreshed)?; emit_auth_changed(&app, &refreshed); Ok(..)`
RfSave(vo, so) ==
    /\ rf.pc = "save"
    /\ SaveTokensCase(vo, so)
    /\ vault' = SaveTokensVault(vault, Unwrap(rf.new), vo)
    /\ store_tokens' = SaveTokensStore(store_tokens, Unwrap(rf.new), vo, so)
    /\ LET status == AuthStatus(TRUE, Some(Unwrap(rf.new).expires_at)) IN
       IF SaveTokensOk(vo, so)
       THEN /\ rf' = RfReturn("Ok", Some(status))
            /\ notified' = Emit(notified, status)
       ELSE /\ rf' = RfReturn("Storage", None)
            /\ notified' = notified
    /\ lo' = [lo EXCEPT !.dirty = TRUE]
    /\ UNCHANGED <<pending, processing, provider, store_pending,
                   store_provider, now, cb, prep, nextId, issued, exchanged,
                   drained, st, restarted, io>>

----------------------------------------------------------------------------
(* The clock *)

\* A second passes.
Second ==
    /\ now < MaxSeconds
    /\ now' = now + 1
    /\ UNCHANGED <<pending, processing, provider, store_pending,
                   store_provider, store_tokens, vault, cb, prep, nextId,
                   exchanged, issued, drained>>
    /\ UNCHANGED sessVars

Tick(d) ==
    /\ now + d \in TimeValues
    /\ now' = now + d
    /\ UNCHANGED <<pending, processing, provider, store_pending,
                   store_provider, store_tokens, vault, cb, prep, nextId,
                   exchanged, issued, drained>>
    /\ UNCHANGED sessVars

----------------------------------------------------------------------------

Next ==
    \/ \E i \in Callers : CbReject(i)
    \/ \E i \in Callers, u \in Urls : CbClearPending(i, u)
    \/ \E i \in Callers, o \in StoreOutcomes : CbClearStore(i, o)
    \/ \E i \in Callers, u \in Urls : CbTake(i, u)
    \/ \E i \in Callers, o \in ReadOutcomes : CbLoad(i, o)
    \/ \E i \in Callers, o \in StoreOutcomes : CbConsumeClear(i, o)
    \/ \E i \in Callers, xo \in ExchangeOutcomes, resp \in TokenResponses :
           CbExchange(i, xo, resp)
    \/ \E i \in Callers, vo \in VaultOutcomes, so \in StoreOutcomes :
           CbSaveTokens(i, vo, so)
    \/ \E i \in Callers, o \in StoreOutcomes : CbPersistProvider(i, o)
    \/ \E p \in Providers : PrepStart(p)
    \/ \E o \in StoreOutcomes : PrepPersistProvider(o)
    \/ \E o \in StoreOutcomes, built \in BOOLEAN : PrepPersistPending(o, built)
    \/ \E d \in TickSteps : Tick(d)

Spec == Init /\ [][Next]_vars

\* The login flow with a further oauth_prepare_login replacing the attempt.
NextReplace ==
    \/ Next
    \/ \E p \in OtherProviders : PrepAgain(p)

SpecReplace == Init /\ [][NextReplace]_vars

\* A session that exists when the commands are invoked: a TokenSet of an
\* earlier login in the keyring, in the store, in both or in neither, that
\* expires at the start, a refresh window later or a second after that; a
\* provider in the memory cache, in the store, in both or in neither.
SessionExpiries == {0, REFRESH_WINDOW_SECS, REFRESH_WINDOW_SECS + 1}
SessionTokens ==
    {None} \cup
    {Some([access_token |-> "at0", refresh_token |-> r, expires_at |-> e]) :
        r \in {None, Some("rt0")}, e \in SessionExpiries}

InitSession ==
    /\ pending = None
    /\ processing = FALSE
    /\ provider \in {None, Some("pA")}
    /\ store_pending = None
    /\ store_provider \in {None, Some("pA")}
    /\ store_tokens \in SessionTokens
    /\ vault \in SessionTokens
    /\ now = 0
    /\ cb = [i \in Callers |-> IdleCb]
    /\ prep = IdlePrep
    /\ nextId = 1
    /\ issued = {}
    /\ exchanged = [v \in Ids |-> 0]
    /\ drained = FALSE
    /\ lo = IdleLo
    /\ rf = IdleRf
    /\ st = NoStatus
    /\ notified = NoEvent
    /\ restarted = None
    /\ io = NoCall

\* The session commands oauth_refresh_if_needed and oauth_get_auth_state.
NextSession ==
    \/ RfStart
    \/ \E o \in ReadOutcomes : RfLoadProvider(o)
    \/ \E vo \in LoadOutcomes, so \in ReadOutcomes : RfLoadTokens(vo, so)
    \/ \E xo \in ExchangeOutcomes, resp \in RefreshResponses :
           RfRefresh(xo, resp)
    \/ \E vo \in VaultOutcomes, so \in StoreOutcomes : RfSave(vo, so)
    \/ \E vo \in LoadOutcomes, so \in ReadOutcomes : GetStatus(vo, so)
    \/ Second

SpecSession == InitSession /\ [][NextSession]_vars

\* The session commands oauth_logout and oauth_get_auth_state.
NextSignOut ==
    \/ \E vo \in DeleteOutcomes : LoStart(vo)
    \/ \E o \in StoreOutcomes : LoProvider(o)
    \/ \E o \in StoreOutcomes : LoPending(o)
    \/ \E o \in StoreOutcomes : LoTokens(o)
    \/ \E vo \in LoadOutcomes, so \in ReadOutcomes : GetStatus(vo, so)
    \/ Second

SpecSignOut == InitSession /\ [][NextSignOut]_vars

\* The token store on its own: save_tokens, load_tokens and the clearing
\* oauth_logout does, from an empty keyring and an empty store.
NextStore ==
    \/ \E tok \in SavedTokens, vo \in VaultOutcomes, so \in StoreOutcomes :
           StoreSave(tok, vo, so)
    \/ \E vo \in LoadOutcomes, so \in ReadOutcomes : StoreLoad(vo, so)
    \/ \E vo \in DeleteOutcomes : LoStart(vo)
    \/ \E o \in StoreOutcomes : LoProvider(o)
    \/ \E o \in StoreOutcomes : LoPending(o)
    \/ \E o \in StoreOutcomes : LoTokens(o)

SpecStore == Init /\ [][NextStore]_vars

\* The process is started again: AuthState::new() gives an empty memory
\* slot, an empty provider cache and a lowered processing flag; the tasks of
\* the old process are gone; the stores and the keyring entry stay.
Restart ==
    /\ IsNone(restarted)
    /\ pending' = None
    /\ provider' = None
    /\ processing' = FALSE
    /\ cb' = [i \in Callers |-> IdleCb]
    /\ prep' = IdlePrep
    /\ restarted' = Some(issued)
    /\ UNCHANGED <<store_pending, store_provider, store_tokens, vault, now,
                   nextId, issued, exchanged, drained, lo, rf, st, notified,
                   io>>

\* The login flow with one restart of the process.
NextRestart ==
    \/ Next
    \/ Restart

SpecRestart == Init /\ [][NextRestart]_vars

\* The login flow with oauth_logout.
NextLogout ==
    \/ Next
    \/ \E vo \in DeleteOutcomes : LoStart(vo)
    \/ \E o \in StoreOutcomes : LoProvider(o)
    \/ \E o \in StoreOutcomes : LoPending(o)
    \/ \E o \in StoreOutcomes : LoTokens(o)

SpecLogout == Init /\ [][NextLogout]_vars

----------------------------------------------------------------------------
(* Properties.  A step of invocation i is a step that changes cb[i]; the   *)
(* result of an invocation is read in the step that returns it.            *)

InProcessing == {i \in Callers : cb[i].pc \in ProcessingPcs}
Steps(i) == cb'[i] # cb[i]
Starts(i) == cb[i].pc = "idle" /\ cb'[i].pc # "idle"
Rec(i) == Unwrap(cb[i].pend)
WellFormed(u) == ~u.error /\ u.code /\ IsSome(u.state)
Holds(slot, v) == IF IsSome(slot) THEN Unwrap(slot).state = v ELSE FALSE

\* C1: at most one invocation of handle_callback_url is in Processing at any
\* time; an invocation that arrives while another one is in Processing
\* returns the already-processing error in its first step, and that step
\* leaves the invocation in Processing as it was.
C1_SingleFlight ==
    [][/\ Cardinality(InProcessing') <= 1
       /\ \A i \in Callers :
            (cb[i].pc = "idle" /\ Steps(i) /\ InProcessing # {}) =>
                /\ cb'[i].pc = "idle"
                /\ cb'[i].result = "AlreadyProcessing"
                /\ \A j \in InProcessing : cb'[j] = cb[j]]_vars

\* An invocation has been refused while another one was in Processing.
C1_Witness ==
    \E i, j \in Callers :
        /\ cb[i].pc \in ProcessingPcs
        /\ cb[j].pc = "idle" /\ cb[j].result = "AlreadyProcessing"

\* C7: the guard is released on every exit path of handle_callback_url:
\* whenever no invocation is executing, the processing flag is false, so the
\* next delivery is not refused.
C7_GuardReleased == (InProcessing = {}) => ~processing

\* An invocation has left by an error path and the flag is down.
C7_Witness ==
    /\ InProcessing = {}
    /\ ~processing
    /\ \E i \in Callers : cb[i].result \in {"Storage", "TokenExchangeFailed"}

\* C8: an invocation refused because another one is in Processing leaves the
\* pending record (in memory and in the store), the tokens and the
\* processing flag as they were.
C8_RejectedChangesNothing ==
    [][\A i \in Callers :
        (Steps(i) /\ cb'[i].pc = "idle" /\ cb'[i].result = "AlreadyProcessing"
                  /\ cb[i].pc = "idle") =>
            /\ processing /\ processing'
            /\ UNCHANGED <<pending, store_pending, store_tokens, vault>>]_vars

\* An invocation has been refused while the other one had taken the pending
\* record from memory and the durable copy was still in the store.
C8_Witness ==
    \E i, j \in Callers :
        /\ cb[j].result = "AlreadyProcessing"
        /\ cb[i].pc = "consume_clear"
        /\ IsSome(store_pending)
        /\ processing


\* C9: when the redirect carries an error parameter, handle_callback_url
\* clears the pending record in memory, then in the store, makes no token
\* request and writes no tokens, and returns AuthorizationDenied when the
\* state parameter is present and MissingState when it is absent, whatever
\* the code parameter.  The one other result is the Storage error of a
\* clear_pending_store that failed, which `?` propagates.
C9_ErrorParameter ==
    [][\A i \in Callers :
        /\ (Starts(i) /\ cb'[i].url.error) =>
              /\ cb'[i].pc = "clear_store"
              /\ IsNone(pending')
              /\ UNCHANGED <<exchanged, vault, store_tokens>>
        /\ (cb[i].pc # "idle" /\ cb[i].url.error /\ Steps(i)) =>
              /\ cb'[i].pc = "idle"
              /\ cb'[i].result \in
                    {IF IsSome(cb[i].url.state) THEN "AuthorizationDenied"
                                                ELSE "MissingState",
                     "Storage"}
              /\ (cb'[i].result # "Storage" => IsNone(store_pending'))
              /\ UNCHANGED <<exchanged, vault, store_tokens>>]_vars

\* A redirect with error and code but no state has cleared the record of an
\* issued login in memory and is about to clear its durable copy.
C9_Witness ==
    \E i \in Callers :
        /\ cb[i].pc = "clear_store"
        /\ cb[i].url.error /\ cb[i].url.code /\ IsNone(cb[i].url.state)
        /\ cb[i].result = "MissingState"
        /\ IsNone(pending) /\ IsSome(store_pending)

\* C10: without an error parameter, a redirect without code returns
\* MissingCode (also when the state is missing too) and a redirect with code
\* but without state returns MissingState; in both cases the pending record
\* is cleared in memory, then in the store, and no token request is made.
\* The one other result is the Storage error of a clear_pending_store that
\* failed.
C10_MissingCodeOrState ==
    [][\A i \in Callers :
        /\ (Starts(i) /\ ~cb'[i].url.error
                      /\ (~cb'[i].url.code \/ IsNone(cb'[i].url.state))) =>
              /\ cb'[i].pc = "clear_store"
              /\ IsNone(pending')
              /\ UNCHANGED exchanged
        /\ (cb[i].pc # "idle" /\ ~cb[i].url.error /\ Steps(i)
                      /\ (~cb[i].url.code \/ IsNone(cb[i].url.state))) =>
              /\ cb'[i].pc = "idle"
              /\ cb'[i].result \in
                    {IF ~cb[i].url.code THEN "MissingCode" ELSE "MissingState",
                     "Storage"}
              /\ (cb'[i].result # "Storage" => IsNone(store_pending'))
              /\ UNCHANGED <<exchanged, vault, store_tokens>>]_vars

\* A redirect with neither error, code nor state has cleared the record of
\* an issued login in memory and is about to clear its durable copy.
C10_Witness ==
    \E i \in Callers :
        /\ cb[i].pc = "clear_store"
        /\ ~cb[i].url.error /\ ~cb[i].url.code /\ IsNone(cb[i].url.state)
        /\ cb[i].result = "MissingCode"
        /\ IsNone(pending) /\ IsSome(store_pending)

\* C6: once consume_pending has returned the record to a redirect with code
\* and the state of that record, the invocation returns PendingExpired when
\* now - created_at_epoch > 600 and goes on to the token request when it is
\* <= 600; in the expired case the record is in neither the memory slot nor
\* the store.
C6_Expiry ==
    [][\A i \in Callers :
        (cb[i].pc = "consume_clear" /\ Steps(i)
            /\ WellFormed(cb[i].url)
            /\ Rec(i).state = Unwrap(cb[i].url.state)
            /\ cb'[i].result # "Storage") =>
          IF now - Rec(i).created_at_epoch > 600
          THEN /\ cb'[i].pc = "idle"
               /\ cb'[i].result = "PendingExpired"
               /\ IsNone(store_pending')
               /\ ~Holds(pending', Rec(i).state)
               /\ UNCHANGED exchanged
          ELSE cb'[i].pc = "exchange"]_vars

\* An invocation has returned PendingExpired one second past the
\* time-to-live and no pending record is left.
C6_Witness ==
    /\ \E i \in Callers : cb[i].result = "PendingExpired"
    /\ now = PENDING_TTL + 1
    /\ IsNone(pending) /\ IsNone(store_pending)
    /\ issued # {}


C3_ExchangeOnlyWhenValid ==
    [][\A i \in Callers :
        /\ (cb'[i].pc = "exchange" /\ cb[i].pc # "exchange") =>
              /\ cb[i].pc = "consume_clear"
              /\ ~cb[i].url.error /\ cb[i].url.code /\ IsSome(cb[i].url.state)
              /\ IsSome(cb[i].pend)
              /\ now - Rec(i).created_at_epoch <= 600
              /\ Rec(i).state = Unwrap(cb[i].url.state)
              /\ IsNone(store_pending')
              /\ cb'[i].url = cb[i].url /\ cb'[i].pend = cb[i].pend
        /\ (Steps(i) /\ exchanged' # exchanged) =>
              /\ cb[i].pc = "exchange"
              /\ exchanged' = [exchanged EXCEPT ![Rec(i).code_verifier] = @ + 1]
        /\ (cb'[i].pc = "save" /\ cb[i].pc # "save") =>
              cb[i].pc = "exchange" /\ exchanged' # exchanged
        /\ (Steps(i) /\ <<vault, store_tokens>>' # <<vault, store_tokens>>) =>
              /\ cb[i].pc = "save"
              /\ \/ vault' = cb[i].tok /\ store_tokens' = store_tokens
                 \/ store_tokens' = cb[i].tok /\ vault' = vault]_vars

\* An invocation has made the token request and written the TokenSet.
C3_Witness ==
    \E i \in Callers :
        /\ cb[i].pc = "persist"
        /\ IsSome(cb[i].tok)
        /\ (vault = cb[i].tok \/ store_tokens = cb[i].tok)
        /\ exchanged[Rec(i).code_verifier] = 1


\* C5: after consume_pending has returned the pending record to an
\* invocation, and as long as oauth_prepare_login writes nothing, there is
\* no pending record in memory or in the store: an invocation with a
\* well-formed URL finds the memory slot empty, and then returns
\* NoPendingState (or the Storage error of a load_pending_store that failed).
C5_ConsumedOnce ==
    [][/\ drained' => IsNone(pending') /\ IsNone(store_pending')
       /\ \A i \in Callers :
            /\ (drained /\ Starts(i) /\ WellFormed(cb'[i].url)) =>
                  cb'[i].pc = "consume_load" /\ IsNone(cb'[i].pend)
            /\ (drained /\ cb[i].pc = "consume_load" /\ Steps(i)) =>
                  /\ cb'[i].pc = "idle"
                  /\ cb'[i].result \in {"NoPendingState", "Storage"}
                  /\ UNCHANGED <<exchanged, vault, store_tokens>>]_vars

\* The record of login 1 was consumed and used for a token request, no
\* oauth_prepare_login has written since, and a later invocation has
\* returned NoPendingState.
C5_Witness ==
    /\ drained
    /\ exchanged[1] = 1
    /\ InProcessing = {}
    /\ cb[1].result = "NoPendingState"

\* C2: for two invocations on the same pending record, the token request is
\* made at most once with the verifier of that record and at most one of
\* them returns Ok; the other one is refused as already processing when it
\* starts while the first is in Processing, and once the record was used for
\* a token request (and no later login was prepared) it finds no record and
\* returns NoPendingState (or the Storage error of a load_pending_store that
\* failed).
C2_ExactlyOneSucceeds ==
    [][/\ \A v \in Ids :
            /\ exchanged'[v] <= 1
            /\ exchanged'[v] = 1 =>
                  ~Holds(pending', v) /\ ~Holds(store_pending', v)
       /\ Cardinality({i \in Callers : cb'[i].result = "Ok"})
            <= Cardinality({v \in Ids : exchanged'[v] >= 1})
       /\ \A i \in Callers :
            /\ (cb[i].pc = "idle" /\ Steps(i) /\ InProcessing # {}) =>
                  cb'[i].pc = "idle" /\ cb'[i].result = "AlreadyProcessing"
            /\ (Starts(i) /\ WellFormed(cb'[i].url)
                  /\ Unwrap(cb'[i].url.state) \in Ids
                  /\ exchanged[Unwrap(cb'[i].url.state)] = 1
                  /\ nextId = Unwrap(cb'[i].url.state) + 1) =>
                  cb'[i].pc = "consume_load"
            /\ (cb[i].pc = "consume_load" /\ Steps(i)
                  /\ Unwrap(cb[i].url.state) \in Ids
                  /\ exchanged[Unwrap(cb[i].url.state)] = 1
                  /\ nextId = Unwrap(cb[i].url.state) + 1) =>
                  /\ cb'[i].pc = "idle"
                  /\ cb'[i].result \in {"NoPendingState", "Storage"}]_vars

\* The first invocation has made the token request and is about to write
\* the tokens; the second one, delivered meanwhile, was refused.
C2_Witness ==
    /\ cb[1].pc = "save"
    /\ exchanged[Rec(1).code_verifier] = 1
    /\ cb[2].pc = "idle" /\ cb[2].result = "AlreadyProcessing"

----------------------------------------------------------------------------
(* Pending state across oauth_prepare_login, callbacks and oauth_logout *)

\* No operation is in progress.
Quiescent ==
    /\ \A i \in Callers : cb[i].pc = "idle"
    /\ prep.pc = "idle"
    /\ lo.pc = "idle"

\* The memory slot and the durable slot hold records of different attempts.
TwoAttempts ==
    /\ IsSome(pending)
    /\ IsSome(store_pending)
    /\ Unwrap(pending).state # Unwrap(store_pending).state

\* C11: in every quiescent state (no operation in progress) reached by
\* interleavings of oauth_prepare_login, callbacks and oauth_logout, the
\* memory slot and the durable slot do not hold the pending records of two
\* different login attempts.
C11_AtMostOnePending == Quiescent => ~TwoAttempts

----------------------------------------------------------------------------
(* Last-prepare-wins *)

\* oauth_prepare_login returns the authorization URL in this step.
PrepReturnsOk == prep.pc = "persist_pending" /\ prep.id \in issued' \ issued

\* The attempt that replaces the others has been prepared successfully.
Replaced == MaxAttempts \in issued

----------------------------------------------------------------------------
(* The durable pending record after a restart *)

\* C13: the durable pending record is the source of truth when the memory
\* copy is absent, as after a restart of the process.  An invocation with
\* code and state that found the memory slot empty reads the durable record:
\* when there is one it consumes that record, and when its state is the
\* state of the redirect and it is at most 600 seconds old the invocation
\* goes on to the token request with the verifier and provider of that
\* record, and the record is deleted from the store.  NoPendingState is
\* returned only when the memory slot was empty and the store holds no
\* record.  (A failing store call returns the Storage error instead; the
\* steps meant are those of the running process, not the restart itself.)
C13_DurableSourceOfTruth ==
    [][(restarted' = restarted) => \A i \in Callers :
        /\ (Starts(i) /\ cb'[i].pc = "consume_load") => IsNone(pending)
        /\ (cb[i].pc = "consume_load" /\ Steps(i)
              /\ cb'[i].result # "Storage") =>
             IF IsSome(store_pending)
             THEN /\ cb'[i].pc = "consume_clear"
                  /\ cb'[i].pend = store_pending
             ELSE /\ cb'[i].pc = "idle"
                  /\ cb'[i].result = "NoPendingState"
        /\ (Steps(i) /\ cb'[i].result = "NoPendingState") =>
             /\ cb[i].pc = "consume_load"
             /\ IsNone(store_pending)
        /\ (cb[i].pc = "consume_clear" /\ Steps(i)
              /\ cb[i].url.state = Some(Rec(i).state)
              /\ now - Rec(i).created_at_epoch <= 600
              /\ cb'[i].result # "Storage") =>
             /\ cb'[i].pc = "exchange"
             /\ cb'[i].pend = cb[i].pend
             /\ IsNone(store_pending')
        /\ (cb[i].pc = "exchange" /\ Steps(i)) =>
             exchanged' = [exchanged EXCEPT ![Rec(i).code_verifier] = @ + 1]
      ]_vars

\* After a restart an invocation with the state prepared before the restart
\* has consumed the durable record and is about to request the token with
\* the prepared verifier and provider.
C13_Witness ==
    /\ IsSome(restarted)
    /\ IsNone(pending)
    /\ IsNone(store_pending)
    /\ \E i \in Callers :
        /\ cb[i].pc = "exchange"
        /\ cb[i].url.state = Some(Rec(i).state)
        /\ Rec(i).state \in Unwrap(restarted)
        /\ Rec(i).code_verifier = Rec(i).state
        /\ Rec(i).provider \in Providers
        /\ exchanged[Rec(i).code_verifier] = 0

----------------------------------------------------------------------------
(* oauth_logout *)

\* oauth_logout has returned success, and no TokenSet and no provider was
\* saved since it began.
LoggedOut == lo.pc = "idle" /\ lo.result = "Ok" /\ ~lo.dirty

\* C14: after oauth_logout has returned success, whatever the keyring and
\* the store held before, neither backend holds a TokenSet, and
\* oauth_get_auth_state answers is_authenticated = false and expires_at =
\* None (or fails on a backend it cannot read).
C14_LogoutThenStatus ==
    [][/\ LoggedOut' => IsNone(vault') /\ IsNone(store_tokens')
       /\ (LoggedOut /\ st' # st /\ st'.result = "Ok") =>
             st'.status = Some(Unauthenticated)]_vars


\* Every login attempt made so far had been prepared successfully when the
\* logout began.
PreparedBefore == lo.before # {} /\ lo.before = 1..(nextId - 1)

\* C15: oauth_logout clears everything related to the session.  When it has
\* returned success, and the logins were prepared before it began, no pending
\* record and no provider config remains, in memory or in the store; an
\* invocation of handle_callback_url with code and the state of such a login
\* then finds no record in memory (it goes on to the store, which is empty,
\* and fails with NoPendingState), so it persists no TokenSet.
C15_LogoutClearsEverything ==
    [][/\ (LoggedOut' /\ PreparedBefore' /\ Quiescent') =>
            /\ IsNone(pending') /\ IsNone(store_pending')
            /\ IsNone(provider') /\ IsNone(store_provider')
       /\ \A i \in Callers :
            (LoggedOut /\ PreparedBefore /\ Quiescent /\ Starts(i)
               /\ WellFormed(cb'[i].url)
               /\ Unwrap(cb'[i].url.state) \in lo.before) =>
                 /\ cb'[i].pc = "consume_load"
                 /\ IsNone(store_pending)]_vars

----------------------------------------------------------------------------
(* oauth_refresh_if_needed *)

\* A step of the invocation of oauth_refresh_if_needed.
RfSteps == rf' # rf
\* The TokenSet load_tokens returns in this step: the keyring entry, or the
\* store record when the keyring gives none.
RfLoaded ==
    /\ rf'.tokens \in {vault, store_tokens}
    /\ IsNone(vault) => rf'.tokens = store_tokens

\* C16: oauth_refresh_if_needed with a provider config available, when the
\* TokenSet load_tokens returns has expires_at - now > 60, returns
\* is_authenticated = true with that expires_at; the invocation has made no
\* request to the token endpoint, changed neither the keyring entry nor the
\* store record, and emitted nothing.
C16_FreshTokensUntouched ==
    [][/\ (RfSteps /\ rf.pc \in {"idle", "load_provider", "load_tokens"}) =>
            /\ UNCHANGED <<vault, store_tokens, notified>>
            /\ rf'.calls = 0
       /\ (RfSteps /\ rf.pc = "load_tokens" /\ rf'.result # "Storage") =>
            /\ RfLoaded
            /\ (IF IsSome(rf'.tokens)
                THEN Unwrap(rf'.tokens).expires_at - now > 60
                ELSE FALSE) =>
                 /\ rf'.pc = "idle"
                 /\ rf'.result = "Ok"
                 /\ rf'.status =
                      Some(AuthStatus(TRUE, Some(Unwrap(rf'.tokens).expires_at)))
      ]_vars

\* The invocation has returned the expires_at of a TokenSet that had a
\* refresh token and was 61 seconds from expiry, and nothing was refreshed.
C16_Witness ==
    /\ rf.pc = "idle"
    /\ rf.result = "Ok"
    /\ rf.calls = 0
    /\ IsSome(provider)
    /\ IsSome(rf.tokens)
    /\ rf.tokens = vault
    /\ IsSome(Unwrap(rf.tokens).refresh_token)
    /\ Unwrap(rf.tokens).expires_at - now = 61
    /\ rf.status = Some(AuthStatus(TRUE, Some(Unwrap(rf.tokens).expires_at)))
    /\ notified = NoEvent


\* C17: when the TokenSet load_tokens returns has expires_at - now <= 60
\* (expired ones included) and a refresh token, oauth_refresh_if_needed makes
\* the refresh_token grant, and makes it once: only that step counts a
\* request, and the invocation returns after it or saves.  On a 2xx answer
\* received at time t the new TokenSet has expires_at = t + expires_in of the
\* answer, 3600 when the answer has none; save_tokens writes that TokenSet
\* (to the keyring, or to the store when the keyring refuses it), and the
\* invocation returns is_authenticated = true with that expires_at.
C17_RefreshInsideWindow ==
    [][/\ (RfSteps /\ rf.pc = "load_tokens" /\ rf'.result # "Storage"
             /\ (IF IsSome(rf'.tokens)
                 THEN /\ Unwrap(rf'.tokens).expires_at - now <= 60
                      /\ IsSome(Unwrap(rf'.tokens).refresh_token)
                 ELSE FALSE)) =>
            /\ rf'.pc = "refresh"
            /\ rf'.calls = 0
       /\ (RfSteps /\ rf.pc = "refresh") =>
            /\ rf'.calls = 1
            /\ rf'.pc \in {"save", "idle"}
            /\ rf'.pc = "save" =>
                 /\ IsSome(rf'.resp)
                 /\ Unwrap(rf'.new).expires_at =
                      now + (IF IsSome(Unwrap(rf'.resp).expires_in)
                             THEN Unwrap(Unwrap(rf'.resp).expires_in)
                             ELSE 3600)
                 /\ Unwrap(rf'.new).access_token = Unwrap(rf'.resp).access_token
       /\ (RfSteps /\ rf.pc # "refresh") => rf'.calls \in {0, rf.calls}
       /\ (RfSteps /\ rf.pc = "save") =>
            /\ rf'.pc = "idle"
            /\ rf'.calls = 1
            /\ rf'.result \in {"Ok", "Storage"}
            /\ rf'.result = "Ok" =>
                 /\ rf.new \in {vault', store_tokens'}
                 /\ rf'.status =
                      Some(AuthStatus(TRUE, Some(Unwrap(rf.new).expires_at)))
      ]_vars

\* An expired TokenSet with a refresh token was refreshed with one request,
\* whose answer had no expires_in; the keyring holds the new TokenSet, which
\* expires 3600 seconds after the answer, and that expiry was returned.
C17_Witness ==
    /\ rf.pc = "idle"
    /\ rf.result = "Ok"
    /\ rf.calls = 1
    /\ IsSome(vault)
    /\ Unwrap(vault).access_token = "at1"
    /\ Unwrap(vault).expires_at \in {3600, 3601}
    /\ rf.status = Some(AuthStatus(TRUE, Some(Unwrap(vault).expires_at)))
    /\ notified.status = rf.status


\* A TokenSet written by a refresh (the sessions found at the start carry
\* the access token "at0").
Refreshed(slot) ==
    IF IsSome(slot) THEN Unwrap(slot).access_token \in AccessTokens ELSE FALSE

\* C18: a successful refresh carries the refresh token forward.  The new
\* TokenSet holds the refresh token of the answer when the answer has one,
\* and the refresh token the request was made with when it has none;
\* save_tokens writes that TokenSet and nothing else.  So every TokenSet a
\* refresh has written to the keyring or the store has a refresh token, over
\* any sequence of refreshes.
C18_RefreshTokenCarried ==
    [][/\ (RfSteps /\ rf.pc = "refresh" /\ rf'.pc = "save") =>
            /\ rf'.tokens = rf.tokens
            /\ Unwrap(rf'.new).refresh_token =
                 (IF IsSome(Unwrap(rf'.resp).refresh_token)
                  THEN Unwrap(rf'.resp).refresh_token
                  ELSE Unwrap(rf.tokens).refresh_token)
            /\ IsSome(Unwrap(rf'.new).refresh_token)
       /\ (RfSteps /\ rf.pc = "save") =>
            /\ vault' \in {vault, rf.new}
            /\ store_tokens' \in {store_tokens, rf.new}
       /\ Refreshed(vault') => IsSome(Unwrap(vault').refresh_token)
       /\ Refreshed(store_tokens') => IsSome(Unwrap(store_tokens').refresh_token)
      ]_vars

\* A second refresh in a row has been saved: it was requested with the
\* refresh token an earlier refresh had carried forward from the session
\* found at the start, its answer had none, and the keyring holds that
\* token still.
C18_Witness ==
    /\ rf.pc = "idle"
    /\ rf.result = "Ok"
    /\ notified.n = 0
    /\ IsSome(notified.status)
    /\ Refreshed(vault)
    /\ Unwrap(vault).refresh_token = Some("rt0")


\* C19: oauth_refresh_if_needed reports its failures in a fixed order.  With
\* no provider in memory it reads the provider store before any token is
\* looked at, and fails with ProviderConfigMissing when the store has none;
\* otherwise the provider found is cached.  Then, on what load_tokens
\* returns: no TokenSet gives the unauthenticated status; RefreshTokenMissing
\* is returned exactly when the TokenSet is inside the 60 second window and
\* has no refresh token.  A refresh request that fails returns its error.
\* In all these cases the keyring entry and the store record are unchanged
\* and nothing is emitted; a failing store read returns the Storage error.
C19_FailureOrder ==
    [][/\ (RfSteps /\ rf.pc = "idle") =>
            rf'.pc = IF IsSome(provider) THEN "load_tokens" ELSE "load_provider"
       /\ (RfSteps /\ rf.pc = "load_provider" /\ rf'.result # "Storage") =>
            IF IsNone(store_provider)
            THEN /\ rf'.pc = "idle"
                 /\ rf'.result = "ProviderConfigMissing"
                 /\ IsNone(provider')
            ELSE /\ rf'.pc = "load_tokens"
                 /\ provider' = store_provider
       /\ (RfSteps /\ rf'.result = "ProviderConfigMissing") =>
            /\ rf.pc = "load_provider"
            /\ IsNone(provider) /\ IsNone(store_provider)
       /\ (RfSteps /\ rf.pc = "load_tokens") => IsSome(provider)
       /\ (RfSteps /\ rf.pc = "load_tokens" /\ rf'.result # "Storage") =>
            /\ RfLoaded
            /\ IsNone(rf'.tokens) =>
                 /\ rf'.pc = "idle"
                 /\ rf'.result = "Ok"
                 /\ rf'.status = Some(Unauthenticated)
            /\ (rf'.result = "RefreshTokenMissing") <=>
                 (IF IsSome(rf'.tokens)
                  THEN /\ Unwrap(rf'.tokens).expires_at - now <= 60
                       /\ IsNone(Unwrap(rf'.tokens).refresh_token)
                  ELSE FALSE)
       /\ (RfSteps /\ rf.pc = "refresh" /\ rf'.pc = "idle") =>
            rf'.result \in {"TokenExchangeFailed", "Request"}
       /\ (RfSteps /\ rf.pc # "save") =>
            UNCHANGED <<vault, store_tokens, notified>>
       /\ (RfSteps /\ rf'.pc = "idle" /\ rf'.result # "Ok") =>
            /\ notified' = notified
            /\ IsNone(rf'.status)
      ]_vars

\* With no provider in memory or in the store the invocation has failed with
\* ProviderConfigMissing although a TokenSet inside the window and without
\* refresh token is stored; it is untouched and nothing was emitted.
C19_Witness ==
    /\ rf.pc = "idle"
    /\ rf.result = "ProviderConfigMissing"
    /\ IsNone(provider) /\ IsNone(store_provider)
    /\ IsSome(vault)
    /\ IsNone(Unwrap(vault).refresh_token)
    /\ Unwrap(vault).expires_at - now <= 60
    /\ notified = NoEvent

----------------------------------------------------------------------------
(* oauth_get_auth_state *)

\* C20: oauth_get_auth_state is a pure read.  It changes nothing in memory,
\* in the store or in the keyring and emits nothing.  Of the TokenSet
\* load_tokens returns (the keyring entry, or the store record when the
\* keyring gives none) it answers is_authenticated = true iff there is one
\* and its expires_at > now, with no grace, so expires_at = now is
\* unauthenticated; expires_at is that of the TokenSet even when it has
\* expired, and None only when there is no TokenSet.
C20_StatusPureRead ==
    [][(st' # st) =>
        /\ UNCHANGED <<pending, processing, provider, store_pending,
                       store_provider, store_tokens, vault, now, cb, prep,
                       nextId, issued, exchanged, drained, lo, rf, notified,
                       restarted, io>>
        /\ st'.result \in {"Ok", "Storage"}
        /\ st'.result = "Ok" =>
             /\ st'.loaded \in {vault, store_tokens}
             /\ IsNone(vault) => st'.loaded = store_tokens
             /\ IsSome(st'.status)
             /\ Unwrap(st'.status).is_authenticated =
                  (IF IsSome(st'.loaded)
                   THEN Unwrap(st'.loaded).expires_at > now ELSE FALSE)
             /\ Unwrap(st'.status).expires_at =
                  (IF IsSome(st'.loaded)
                   THEN Some(Unwrap(st'.loaded).expires_at) ELSE None)]_vars

\* The answer for a TokenSet that expires at this very second: not
\* authenticated, with its expires_at.
C20_Witness ==
    /\ st.result = "Ok"
    /\ st.loaded = vault
    /\ IsSome(vault)
    /\ Unwrap(vault).expires_at = now
    /\ st.status = Some(AuthStatus(FALSE, Some(now)))

----------------------------------------------------------------------------
(* The token store *)

\* C21: the token store falls back.  save_tokens tries the keyring first and
\* returns Ok when the keyring write succeeds, or, on any failure of the
\* keyring, when the write to the store succeeds: it fails only when the
\* store fails too.  load_tokens returns the TokenSet of the keyring when
\* the keyring read succeeds and otherwise that of the store, and it returns
\* none only when neither holds a TokenSet.
C21_TokenStoreFallback ==
    [][/\ (io' # io /\ io'.op = "save") =>
            /\ (io'.result = "Ok") <=>
                 (io'.vo = "set_ok" \/ StoreOk(io'.so))
            /\ io'.vo = "set_ok" => vault' = io'.arg
            /\ (io'.vo # "set_ok" /\ StoreOk(io'.so)) =>
                 store_tokens' = io'.arg
       /\ (io' # io /\ io'.op = "load") =>
            /\ io'.vo = "get_ok" =>
                 io'.result = "Ok" /\ io'.value = vault
            /\ (io'.vo # "get_ok" /\ StoreOk(io'.so)) =>
                 io'.result = "Ok" /\ io'.value = store_tokens
            /\ (io'.result = "Ok" /\ IsNone(io'.value)) =>
                 IsNone(vault) /\ IsNone(store_tokens)]_vars


\* The keyring and the store do not hold two different TokenSets.
OneTokenSet == (IsSome(vault) /\ IsSome(store_tokens)) => vault = store_tokens
\* save_tokens was called in this step.
SaveStep ==
    /\ io'.op = "save"
    /\ lo' = lo
    /\ io' # io \/ vault' # vault \/ store_tokens' # store_tokens
\* A step of oauth_logout that does not fail.
LogoutStep == lo' # lo /\ lo'.result # "Storage"

\* C22: at most one TokenSet is persisted at a time.  From an empty keyring
\* and an empty store, whatever the keyring does at each call, a save_tokens
\* that returns Ok and a step of a logout that does not fail keep the
\* keyring and the store from holding two different TokenSets.
C22_OneTokenSet ==
    [][(OneTokenSet /\ ((SaveStep /\ io'.result = "Ok") \/ LogoutStep)) =>
          OneTokenSet']_vars

----------------------------------------------------------------------------
(* The auth:changed event *)

\* An event is emitted in this step.
Emitted == notified' # notified
\* Invocation i of handle_callback_url returns Ok in this step.
CallbackOk(i) ==
    cb[i].pc = "persist" /\ cb'[i].pc = "idle" /\ cb'[i].result = "Ok"
RefreshOk == rf.pc = "save" /\ rf'.pc = "idle" /\ rf'.result = "Ok"
LogoutOk == lo.pc = "tokens" /\ lo'.pc = "idle" /\ lo'.result = "Ok"

----------------------------------------------------------------------------
(* oauth_prepare_login during a callback *)

\* oauth_prepare_login takes a step.
PrepSteps == prep'.pc # prep.pc
\* Invocation i has consume_pending behind it and its record passed the tests.
Consumed(i) == cb[i].pc \in {"exchange", "save", "persist"}
\* The record that the replacing oauth_prepare_login writes.
NewRecord(slot) ==
    IF IsSome(slot) THEN /\ Unwrap(slot).state = MaxAttempts
                         /\ Unwrap(slot).code_verifier = MaxAttempts
                         /\ Unwrap(slot).provider \in OtherProviders
    ELSE FALSE

\* C24: oauth_prepare_login does not wait for an invocation of
\* handle_callback_url in flight: each of its steps can be taken while the
\* processing flag is set.  When it runs after the invocation has consumed
\* its pending record, the invocation makes its token request with the
\* verifier and the provider of the record it consumed, and none of its
\* later steps, whether the request succeeds or fails, touches the pending
\* record in memory or in the store.
C24_PrepareDuringCallback ==
    /\ [](processing =>
            /\ (prep.pc = "idle" /\ nextId <= MaxLogins) =>
                 ENABLED (\E p \in Providers : PrepStart(p))
            /\ (prep.pc = "idle" /\ nextId = MaxAttempts) =>
                 ENABLED (\E p \in OtherProviders : PrepAgain(p))
            /\ (prep.pc = "persist_provider") =>
                 ENABLED (\E o \in StoreOutcomes : PrepPersistProvider(o))
            /\ (prep.pc = "persist_pending") =>
                 ENABLED (\E o \in StoreOutcomes, built \in BOOLEAN :
                             PrepPersistPending(o, built)))
    /\ [][\A i \in Callers :
            /\ (PrepSteps /\ Consumed(i)) =>
                 /\ cb'[i] = cb[i]
                 /\ UNCHANGED <<processing, exchanged>>
            /\ (Consumed(i) /\ Steps(i)) =>
                 /\ UNCHANGED <<pending, store_pending>>
                 /\ cb'[i].pc # "idle" => cb'[i].pend = cb[i].pend
                 /\ cb'[i].pc \in {"idle", "save", "persist"}
                 /\ cb'[i].pc = "idle" =>
                      cb'[i].result \in {"Ok", "TokenExchangeFailed",
                                         "Request", "Storage"}
            /\ (cb[i].pc = "exchange" /\ Steps(i)) =>
                 /\ Rec(i).state = Unwrap(cb[i].url.state)
                 /\ Rec(i).code_verifier = Rec(i).state
                 /\ Rec(i).provider \in
                      (IF Rec(i).state = MaxAttempts THEN OtherProviders
                                                     ELSE Providers)
                 /\ exchanged' =
                      [exchanged EXCEPT ![Rec(i).code_verifier] = @ + 1]
            /\ (cb[i].pc = "persist" /\ Steps(i)
                  /\ cb'[i].result = "Ok") =>
                 store_provider' = Some(Rec(i).provider)]_vars

\* The invocation that consumed the record of the first attempt is still in
\* flight, its token request made with verifier 1 and answered, and the
\* second oauth_prepare_login, which overwrote the memory slot after the
\* invocation had taken its record, has returned; the new record is in
\* memory and in the store.
C24_Witness ==
    /\ Replaced
    /\ processing
    /\ prep.pc = "idle"
    /\ NewRecord(pending)
    /\ NewRecord(store_pending)
    /\ exchanged[1] = 1 /\ exchanged[MaxAttempts] = 0
    /\ \E i \in Callers :
         /\ cb[i].pc = "save"
         /\ Rec(i).state = 1 /\ Rec(i).provider \in Providers
----------------------------------------------------------------------------
(* A pending record is read once *)

\* An invocation took the record that the running oauth_prepare_login wrote
\* to memory and is done with the pending record: it is past consume_pending
\* and the tests, or it has returned with a result that only an invocation
\* holding a record returns.
TakenFromPrepare ==
    /\ prep.raced
    /\ ~Holds(pending, prep.id)
    /\ \E j \in Callers :
         \/ Consumed(j) /\ Holds(cb[j].pend, prep.id)
         \/ /\ cb[j].pc = "idle"
            /\ cb[j].result \in {"StateMismatch", "PendingExpired", "Ok",
                                 "TokenExchangeFailed", "Request"}

\* C25 as stated: a pending record is read once.  Whatever the interleaving
\* of the steps of oauth_prepare_login with invocations of
\* handle_callback_url, the token request is made at most once with the
\* verifier of one call of oauth_prepare_login, and no copy of a record that
\* an invocation has consumed is left or written again for a later
\* invocation to consume: persist_pending does not put into the store the
\* record that an invocation has already taken from memory.
C25_ReadOnce ==
    [][/\ \A v \in Ids : exchanged'[v] <= 1
       /\ (prep.pc = "persist_pending" /\ PrepSteps /\ TakenFromPrepare) =>
            ~Holds(store_pending', prep.id)]_vars

----------------------------------------------------------------------------
(* The TokenSet and the result of handle_callback_url *)

\* Invocation i returns an error in this step.
CallbackErr(i) == Steps(i) /\ cb'[i].pc = "idle" /\ cb'[i].result # "Ok"

\* C26 as stated: an invocation of handle_callback_url that returns an error
\* leaves the persisted TokenSet as it was, whatever the error, the Storage
\* error of save_tokens and of persist_provider included: the step in which
\* it returns the error writes neither the keyring nor the token record of
\* the store, and it has written no TokenSet before (it is not past
\* save_tokens).  A TokenSet is changed only by save_tokens of an invocation
\* that goes on to persist_provider, and that one returns Ok.
C26_ErrorLeavesTokens ==
    [][\A i \in Callers :
        /\ CallbackErr(i) =>
             /\ UNCHANGED <<vault, store_tokens>>
             /\ cb[i].pc # "persist"
        /\ (Steps(i) /\ <<vault, store_tokens>>' # <<vault, store_tokens>>) =>
             /\ cb[i].pc = "save"
             /\ cb'[i].pc = "persist"]_vars
----------------------------------------------------------------------------
(* Operations in flight across oauth_logout *)

\* oauth_logout has not been called.
BeforeLogout == lo = IdleLo

\* Deliveries of redirects and calls of oauth_refresh_if_needed made before
\* oauth_logout is called.
CbRejectBefore(i) == BeforeLogout /\ CbReject(i)
CbClearPendingBefore(i, u) == BeforeLogout /\ CbClearPending(i, u)
CbTakeBefore(i, u) == BeforeLogout /\ CbTake(i, u)
RfStartBefore == BeforeLogout /\ RfStart

\* The operations that began before oauth_logout go on during and after it;
\* none begins once it was called.
NextInFlight ==
    \/ \E i \in Callers : CbRejectBefore(i)
    \/ \E i \in Callers, u \in Urls : CbClearPendingBefore(i, u)
    \/ \E i \in Callers, u \in Urls : CbTakeBefore(i, u)
    \/ \E i \in Callers, o \in StoreOutcomes : CbClearStore(i, o)
    \/ \E i \in Callers, o \in ReadOutcomes : CbLoad(i, o)
    \/ \E i \in Callers, o \in StoreOutcomes : CbConsumeClear(i, o)
    \/ \E i \in Callers, xo \in ExchangeOutcomes, resp \in TokenResponses :
           CbExchange(i, xo, resp)
    \/ \E i \in Callers, vo \in VaultOutcomes, so \in StoreOutcomes :
           CbSaveTokens(i, vo, so)
    \/ \E i \in Callers, o \in StoreOutcomes : CbPersistProvider(i, o)
    \/ \E p \in Providers : PrepStart(p)
    \/ \E o \in StoreOutcomes : PrepPersistProvider(o)
    \/ \E o \in StoreOutcomes, built \in BOOLEAN : PrepPersistPending(o, built)
    \/ RfStartBefore
    \/ \E o \in ReadOutcomes : RfLoadProvider(o)
    \/ \E vo \in LoadOutcomes, so \in ReadOutcomes : RfLoadTokens(vo, so)
    \/ \E xo \in ExchangeOutcomes, resp \in RefreshResponses :
           RfRefresh(xo, resp)
    \/ \E vo \in VaultOutcomes, so \in StoreOutcomes : RfSave(vo, so)
    \/ \E d \in TickSteps : Tick(d)
    \/ \E vo \in DeleteOutcomes : LoStart(vo)
    \/ \E o \in StoreOutcomes : LoProvider(o)
    \/ \E o \in StoreOutcomes : LoPending(o)
    \/ \E o \in StoreOutcomes : LoTokens(o)

SpecInFlight == Init /\ [][NextInFlight]_vars

\* oauth_logout has returned success.
LogoutReturned == lo.pc = "idle" /\ lo.result = "Ok"

\* C27 as stated: once oauth_logout has returned success, an invocation of
\* handle_callback_url or a call of oauth_refresh_if_needed that was already
\* in flight when oauth_logout ran writes no TokenSet (oauth_get_auth_state
\* reports what load_tokens finds, so it would report the session again).
\* No redirect is delivered and no refresh is called after oauth_logout was
\* called, so every step here belongs to an operation that was in flight.
C27_NoSessionAfterLogout ==
    [][LogoutReturned => UNCHANGED <<vault, store_tokens>>]_vars
----------------------------------------------------------------------------
(* Token store round trip *)

\* A call of save_tokens that returns Ok.
StoreSaveOk(tok, vo, so) == SaveTokensOk(vo, so) /\ StoreSave(tok, vo, so)

\* Calls of save_tokens that succeed, in the keyring or in the store, and
\* calls of load_tokens, on its own and in oauth_get_auth_state.
NextRoundTrip ==
    \/ \E tok \in SavedTokens, vo \in VaultOutcomes, so \in StoreOutcomes :
           StoreSaveOk(tok, vo, so)
    \/ \E vo \in LoadOutcomes, so \in ReadOutcomes : StoreLoad(vo, so)
    \/ \E vo \in LoadOutcomes, so \in ReadOutcomes : GetStatus(vo, so)

SpecRoundTrip == Init /\ [][NextRoundTrip]_vars

\* C28 as stated: after any sequence of calls of save_tokens that returned
\* Ok, the keyring failing or succeeding on each write and each read, a
\* load_tokens that returns Ok returns the TokenSet of the latest of these
\* calls, never an older one left in the other backend; so does the
\* load_tokens of oauth_get_auth_state.
C28_RoundTrip ==
    [][/\ (io'.op = "load" /\ io' # io /\ io'.result = "Ok") =>
             io'.value = io.last
       /\ (st' # st /\ st'.result = "Ok") => st'.loaded = io.last]_vars
====
